---- MODULE Spec2Model ----
(***************************************************************************)
(* Model of the astrology engine of ml-predicter                           *)
(* (src/ml-predicter/src/engines/astrology_engine.py) and of the           *)
(* /astrology/birth-chart route (src/ml-predicter/src/api/routes/          *)
(* astrology.py).                                                          *)
(*                                                                         *)
(* Numbers.  The source computes in binary floating point.  The model      *)
(* computes the same expressions over the rationals and keeps every angle  *)
(* as a whole number of 1/10000 degree (Deg units per degree), rounded     *)
(* down.  Times are whole minutes; a Julian Date is the pair               *)
(* <<whole day number, minutes past that day's start>>.  Products that do  *)
(* not fit a machine word are carried as quotient/remainder pairs          *)
(* (the R* operators), so no intermediate value is rounded.                *)
(*                                                                         *)
(* One({e(x) : x \in {v}}) is "let x be the value of v in e(x)": it binds   *)
(* x to the value, so that v is computed once however often e reads x.     *)
(***************************************************************************)
EXTENDS Integers, Sequences, FiniteSets, TLC

VARIABLES pc, op, args, ret, now, inv, locals, shared

vars == <<pc, op, args, ret, now, inv, locals, shared>>

\* the state of the caller that invokes one operation at a time
caller == <<pc, op, args, ret>>

\* the state of the invocations of calculate_birth_chart that run side by
\* side on one calculator: their frames, and the calculator and the tables
threads == <<inv, locals, shared>>

-----------------------------------------------------------------------------
(* Bounds of the model *)

\* the clock read by datetime.now() runs over 0..MaxNow
MaxNow == 1

\* generated birth datetimes GenBirth(1) .. GenBirth(MaxBirthIdx)
MaxBirthIdx == 2

\* generated Julian Dates GenJd(0) .. GenJd(MaxJdIdx) given to _get_house
MaxJdIdx == 3

\* generated Mahadasha start datetimes GenStart(0) .. GenStart(MaxStartIdx)
MaxStartIdx == 3

-----------------------------------------------------------------------------
(* Units *)

\* angle units per degree: the model keeps 4 decimals of a degree
Deg == 10 ^ 4

\* the full circle, 360 degrees
Full == 360 * Deg

\* minutes per day
DayMin == 24 * 60

\* minutes per Julian century: 36525 days
CenturyMin == 36525 * DayMin

\* seconds per day
DaySec == 24 * 60 * 60

-----------------------------------------------------------------------------
(* Constant tables *)

ZODIAC_SIGNS ==
    << "Aries", "Taurus", "Gemini", "Cancer", "Leo", "Virgo",
       "Libra", "Scorpio", "Sagittarius", "Capricorn", "Aquarius", "Pisces" >>

NAKSHATRAS ==
    << "Ashwini", "Bharani", "Krittika", "Rohini", "Mrigashira",
       "Ardra", "Punarvasu", "Pushya", "Ashlesha", "Magha",
       "Purva Phalguni", "Uttara Phalguni", "Hasta", "Chitra", "Swati",
       "Visakha", "Anuradha", "Jyeshtha", "Mula", "Purva Ashadha",
       "Uttara Ashadha", "Shravana", "Dhanishtha", "Shatabhisha",
       "Purva Bhadrapada", "Uttara Bhadrapada", "Revati" >>

PLANETS ==
    << "Sun", "Moon", "Mercury", "Venus", "Mars", "Jupiter", "Saturn",
       "Rahu", "Ketu" >>

DASHA_LORDS ==
    << "Ketu", "Venus", "Sun", "Moon", "Mars", "Rahu", "Jupiter", "Saturn",
       "Mercury" >>

DASHA_YEARS ==
    [l \in {DASHA_LORDS[i] : i \in 1..9} |->
        CASE l = "Ketu" -> 7 [] l = "Venus" -> 20 [] l = "Sun" -> 6
          [] l = "Moon" -> 10 [] l = "Mars" -> 7 [] l = "Rahu" -> 18
          [] l = "Jupiter" -> 16 [] l = "Saturn" -> 19 [] l = "Mercury" -> 17]

\* str.lower() on the nine body names: the keys of the planets dict
Lower(planet) ==
    CASE planet = "Sun" -> "sun" [] planet = "Moon" -> "moon"
      [] planet = "Mercury" -> "mercury" [] planet = "Venus" -> "venus"
      [] planet = "Mars" -> "mars" [] planet = "Jupiter" -> "jupiter"
      [] planet = "Saturn" -> "saturn" [] planet = "Rahu" -> "rahu"
      [] planet = "Ketu" -> "ketu"

\* the element of a one-element set
One(S) == CHOOSE x \in S : TRUE

\* list.index(x): the 0-based position of the first element equal to x
IndexOf(seq, x) ==
    (CHOOSE i \in 1..Len(seq) :
        seq[i] = x /\ \A j \in 1..(i - 1) : seq[j] # x) - 1


-----------------------------------------------------------------------------
(* Exact arithmetic on angles.  A pair <<q, r>> with 0 <= r < c stands for *)
(* the number q + r/c of angle units, q kept modulo the full circle.       *)

RNorm(q, r, c) == << (q + (r \div c)) % Full, r % c >>

\* the whole number n of c-ths of a unit
RInt(n, c) == RNorm(0, n, c)

RAdd(x, y, c) ==
    One({RNorm(a[1] + b[1], a[2] + b[2], c) : a \in {x}, b \in {y}})

\* x times a natural number k < 40 (so that no product leaves the machine word)
RSmall(x, k, c) == One({RNorm(a[1] * k, a[2] * k, c) : a \in {x}})

\* x times the natural number k, 5 bits of k at a time
RECURSIVE RMul(_, _, _)
RMul(x, k, c) ==
    IF k < 32 THEN RSmall(x, k, c)
    ELSE RAdd(RSmall(RMul(x, k \div 32, c), 32, c), RSmall(x, k % 32, c), c)

\* (base + rate * t / P) mod 360 degrees, in angle units, rounded down.
\* base = baseDeg + baseFrac/(10000*S) degrees and
\* rate = rateDeg + rateFrac/(10000*S) degrees per period of P minutes;
\* t is a whole number of minutes.  S = 1 for constants written with 4
\* decimals, S = 10000 for constants written with 8.
LinearMod360(baseDeg, baseFrac, rateDeg, rateFrac, S, t, P) ==
    LET c  == S * P
        b  == RNorm(baseDeg * Deg + (baseFrac \div S), (baseFrac % S) * P, c)
    IN  One({RAdd(RAdd(RMul(RMul(RMul(tr, rateDeg, c), 10000, c), S, c),
                       RMul(tr, rateFrac, c), c), b, c)[1] :
                tr \in {RInt(t, c)}})

-----------------------------------------------------------------------------
(* Temporal converter *)

\* the calendar of datetime: leap years and month lengths
IsLeap(y) == (y % 4 = 0 /\ y % 100 # 0) \/ y % 400 = 0

DaysInMonth(y, m) ==
    IF m = 2 THEN (IF IsLeap(y) THEN 29 ELSE 28)
    ELSE IF m \in {4, 6, 9, 11} THEN 30 ELSE 31

\* a date datetime accepts (strptime raises ValueError on any other)
ValidDate(y, m, d) == m \in 1..12 /\ d >= 1 /\ d <= DaysInMonth(y, m)

PrevDay(dt) ==
    IF dt.day > 1 THEN [dt EXCEPT !.day = dt.day - 1]
    ELSE IF dt.month > 1
         THEN [dt EXCEPT !.month = dt.month - 1,
                         !.day = DaysInMonth(dt.year, dt.month - 1)]
         ELSE [dt EXCEPT !.year = dt.year - 1, !.month = 12, !.day = 31]

NextDay(dt) ==
    IF dt.day < DaysInMonth(dt.year, dt.month)
    THEN [dt EXCEPT !.day = dt.day + 1]
    ELSE IF dt.month < 12
         THEN [dt EXCEPT !.month = dt.month + 1, !.day = 1]
         ELSE [dt EXCEPT !.year = dt.year + 1, !.month = 1, !.day = 1]

\* dt - timedelta(hours=tz_offset), the offset given in minutes, |offset| < 1 day
MinusOffset(dt, tz_offset) ==
    LET m == dt.hour * 60 + dt.minute - tz_offset
        d == IF m < 0 THEN PrevDay(dt) ELSE IF m >= DayMin THEN NextDay(dt) ELSE dt
        r == m % DayMin
    IN  [d EXCEPT !.hour = r \div 60, !.minute = r % 60]

\* _gregorian_to_julian_date: the Julian Date as <<day number, minutes>>,
\* that is, day number + minutes/1440 days
GregorianToJulianDate(dt, tz_offset) ==
    LET utc_dt == MinusOffset(dt, tz_offset)
        y  == IF utc_dt.month <= 2 THEN utc_dt.year - 1 ELSE utc_dt.year
        m  == IF utc_dt.month <= 2 THEN utc_dt.month + 12 ELSE utc_dt.month
        d  == utc_dt.day
        h  == utc_dt.hour * 60 + utc_dt.minute + (utc_dt.second \div 60)
        A  == y \div 100
        B  == 2 - A + (A \div 4)
        whole == ((36525 * (y + 4716)) \div 100)
                     + ((306001 * (m + 1)) \div 10000) + d + B
        \* whole - 1524.5 + h/24 days
        mins == (DayMin \div 2) + h
    IN  << whole - 1525 + (mins \div DayMin), mins % DayMin >>

\* (jd - 2451545.0) in minutes
SinceJ2000(jd) == (jd[1] - 2451545) * DayMin + jd[2]

\* _calculate_local_sidereal_time
CalculateLocalSiderealTime(jd, longitude) ==
    LET gmst == LinearMod360(280, 46061837, 360, 98564724, 10000,
                             SinceJ2000(jd), DayMin)
    IN  (gmst + longitude) % Full

-----------------------------------------------------------------------------
(* Planetary position model *)

\* _calculate_planet_longitude: T = (jd - 2451545.0) / 36525 Julian centuries
CalculatePlanetLongitude(jd, planet) ==
    LET t == SinceJ2000(jd)
    IN  IF planet = "Sun"
        THEN LinearMod360(280, 4665, 36000, 7698, 1, t, CenturyMin)
        ELSE IF planet = "Moon"
        THEN LinearMod360(218, 3165, 481267, 8813, 1, t, CenturyMin)
        ELSE IF planet = "Mercury"
        THEN LinearMod360(252, 3000, 149474, 0, 1, t, CenturyMin)
        ELSE IF planet = "Venus"
        THEN LinearMod360(181, 9797, 58517, 8156, 1, t, CenturyMin)
        ELSE IF planet = "Mars"
        THEN LinearMod360(355, 4325, 19139, 8585, 1, t, CenturyMin)
        ELSE IF planet = "Jupiter"
        THEN LinearMod360(34, 3515, 3034, 9057, 1, t, CenturyMin)
        ELSE IF planet = "Saturn"
        THEN LinearMod360(50, 452, 1222, 1136, 1, t, CenturyMin)
        ELSE IF planet = "Rahu"
        THEN LinearMod360(351, 5449, 0, 529, 1, 0 - t, DayMin)
        ELSE IF planet = "Ketu"
        THEN LinearMod360(171, 5449, 0, 529, 1, 0 - t, DayMin)
        ELSE 0

\* the sign a longitude falls in: zodiac_signs[int(lon / 30) % 12]
SignOf(lon) == ZODIAC_SIGNS[((lon \div (30 * Deg)) % 12) + 1]

\* mutant of GetNakshatra: the width of a pada, 360/108, as the divisor
GetNakshatra_PadaWidth(degree) ==
    LET nakshatra_idx == (degree * 108) \div Full
    IN  NAKSHATRAS[(nakshatra_idx % 27) + 1]

\* _get_nakshatra: nakshatras[int(degree / (360 / 27)) % 27]
GetNakshatra(degree) ==
    LET nakshatra_idx == (degree * 27) \div Full
    IN  NAKSHATRAS[(nakshatra_idx % 27) + 1]

\* int((degree_in_sign % (360/27)) / (360/27/4)) + 1
NakshatraPad(degree_in_sign) ==
    ((((degree_in_sign * 27) % Full) * 4) \div Full) + 1

-----------------------------------------------------------------------------
(* House system calculator and house assignment *)

\* mutant of CalculateHouses: the cusps are counted from the ascendant
\* longitude (lst - 90) of _calculate_ascendant
CalculateHouses_FromAscendant(jd, latitude, longitude) ==
    One({[i \in 1..12 |->
            SignOf((lst - 90 * Deg + (i - 1) * 30 * Deg) % Full)] :
            lst \in {CalculateLocalSiderealTime(jd, longitude)}})

\* _calculate_houses: house i -> sign of the cusp (lst + (i - 1) * 30) % 360
CalculateHouses(jd, latitude, longitude) ==
    One({[i \in 1..12 |-> SignOf((lst + (i - 1) * 30 * Deg) % Full)] :
            lst \in {CalculateLocalSiderealTime(jd, longitude)}})

\* mutant of CalculateAscendant: the latitude tilts the ascendant
CalculateAscendant_ByLatitude(jd, latitude, longitude) ==
    LET lst     == CalculateLocalSiderealTime(jd, longitude)
        ramc    == lst % Full
        asc_lon == (ramc - 90 * Deg + latitude) % Full
    IN  SignOf(asc_lon)

\* _calculate_ascendant: the sign of (ramc - 90) % 360
CalculateAscendant(jd, latitude, longitude) ==
    LET lst     == CalculateLocalSiderealTime(jd, longitude)
        ramc    == lst % Full
        asc_lon == (ramc - 90 * Deg) % Full
    IN  SignOf(asc_lon)

\* _get_house_cusp_longitude: sign_idx * 30
GetHouseCuspLongitude(sign) == IndexOf(ZODIAC_SIGNS, sign) * 30 * Deg

\* mutant of InHouseRange: the range that wraps through 360/0 is forgotten
InHouseRange_NoWrap(house_start, house_end, lon_normalized) ==
    house_start <= lon_normalized /\ lon_normalized < house_end

\* the test of the loop of _get_house for one house (lines 403-404)
InHouseRange(house_start, house_end, lon_normalized) ==
    \/ (house_start <= lon_normalized /\ lon_normalized < house_end)
    \/ (house_start > house_end
          /\ (lon_normalized >= house_start \/ lon_normalized < house_end))

\* the houses for which the loop of _get_house would return
HouseMatches(longitude, latitude, jd) ==
    LET lon_normalized == longitude % Full
    IN  One({{i \in 1..12 :
                InHouseRange(GetHouseCuspLongitude(houses[i]),
                             GetHouseCuspLongitude(houses[(i % 12) + 1]),
                             lon_normalized)} :
                houses \in {CalculateHouses(jd, latitude, 0)}})

\* _get_house: the first house of the loop that matches, 1 when none does
GetHouse(longitude, latitude, jd) ==
    One({IF m = {} THEN 1 ELSE CHOOSE i \in m : \A j \in m : i <= j :
            m \in {HouseMatches(longitude, latitude, jd)}})

\* mutant of SignIdx: the quotient is rounded to the nearest whole number
SignIdx_Rounded(lon) == (lon + 15 * Deg) \div (30 * Deg)

\* sign_idx = int(lon / 30)
SignIdx(lon) == lon \div (30 * Deg)

\* mutant of DegreeInSign: the longitude itself, not reduced to the sign
DegreeInSign_WholeCircle(lon) == lon

\* degree_in_sign = lon % 30
DegreeInSign(lon) == lon % (30 * Deg)

\* _calculate_planets: one PlanetaryPosition per body, keyed by planet.lower()
PlanetaryPosition(jd, latitude, planet) ==
    LET Position(lon) ==
            LET degree_in_sign == DegreeInSign(lon)
                degree         == (degree_in_sign \div Deg) * Deg
                minute         == ((degree_in_sign - degree) * 60) \div Deg
            IN  [ planet        |-> planet,
                  sign          |-> SignOf(lon),
                  degree        |-> degree,
                  minute        |-> minute,
                  second        |-> (degree_in_sign - degree) * 3600
                                       - minute * 60 * Deg,
                  house         |-> GetHouse(lon, latitude, jd),
                  speed         |-> 0,
                  retrograde    |-> FALSE,
                  nakshatra     |-> GetNakshatra(degree_in_sign),
                  nakshatra_pad |-> NakshatraPad(degree_in_sign) ]
    IN  One({Position(lon) : lon \in {CalculatePlanetLongitude(jd, planet)}})

PlanetKeys == {Lower(PLANETS[i]) : i \in 1..Len(PLANETS)}

\* mutant of CalculatePlanets: the ascendant is entered among the bodies
CalculatePlanets_WithLagna(jd, latitude, longitude) ==
    [k \in PlanetKeys \cup {"lagna"} |->
        IF k = "lagna"
        THEN PlanetaryPosition(jd, latitude, "Lagna")
        ELSE PlanetaryPosition(jd, latitude,
                 PLANETS[CHOOSE i \in 1..Len(PLANETS) : Lower(PLANETS[i]) = k])]

\* _calculate_planets
CalculatePlanets(jd, latitude, longitude) ==
    [k \in PlanetKeys |->
        PlanetaryPosition(jd, latitude,
            PLANETS[CHOOSE i \in 1..Len(PLANETS) : Lower(PLANETS[i]) = k])]

-----------------------------------------------------------------------------
(* Dasha sequencer.  A datetime handed to get_antardasha is the pair        *)
(* <<ordinal day, second of the day>>; its .date() is the ordinal day.      *)

\* datetime + timedelta(seconds)
AddSeconds(dt, seconds) ==
    << dt[1] + ((dt[2] + seconds) \div DaySec), (dt[2] + seconds) % DaySec >>

\* mutant of AntardashaDuration: the divisor 100 in place of 120
AntardashaDuration_Div100(m_years, a_years) ==
    (m_years * a_years) * ((36525 * (DaySec \div 100)) \div 100)

\* timedelta(days=(m_years * a_years / 120) * 365.25), in seconds:
\* 365.25 days are 36525 * 864 seconds, a multiple of 120
AntardashaDuration(m_years, a_years) ==
    (m_years * a_years) * ((36525 * (DaySec \div 100)) \div 120)

\* mutant of AntardashaLord: the loop forgets start_idx
AntardashaLord_NoStart(start_idx, i) == DASHA_LORDS[(i % 9) + 1]

\* a_lord = DASHA_LORDS[(start_idx + i) % 9]
AntardashaLord(start_idx, i) == DASHA_LORDS[((start_idx + i) % 9) + 1]

\* the loop of get_antardasha from its i-th pass on
RECURSIVE AntardashaLoop(_, _, _, _)
AntardashaLoop(m_years, start_idx, i, current_start) ==
    IF i = 9 THEN << >>
    ELSE LET a_lord   == AntardashaLord(start_idx, i)
             a_years  == DASHA_YEARS[a_lord]
         IN  One({ << [ lord  |-> a_lord,
                        start |-> current_start[1],
                        end   |-> end_date[1] ] >>
                     \o AntardashaLoop(m_years, start_idx, i + 1, end_date) :
                   end_date \in {AddSeconds(current_start,
                                     AntardashaDuration(m_years, a_years))} })

\* get_antardasha
GetAntardasha(mahadasha_lord, start_date) ==
    AntardashaLoop(DASHA_YEARS[mahadasha_lord],
                   IndexOf(DASHA_LORDS, mahadasha_lord), 0, start_date)

\* mutant of DashaLordIdx: three consecutive nakshatras per lord
DashaLordIdx_Div3(nakshatra_idx) == nakshatra_idx \div 3

\* dasha_lord_idx = nakshatra_idx % 9
DashaLordIdx(nakshatra_idx) == nakshatra_idx % 9

\* datetime.isoformat(): the fields in the order the string shows them
IsoFormat(dt) == << dt.year, dt.month, dt.day, dt.hour, dt.minute, dt.second >>

\* _calculate_dasha; remaining_years (years * 0.5) is kept in tenths of a year
CalculateDasha(moon_nakshatra, birth_time) ==
    LET nakshatra_idx == IndexOf(NAKSHATRAS, moon_nakshatra)
        current_lord  == DASHA_LORDS[DashaLordIdx(nakshatra_idx) + 1]
    IN  [ lord            |-> current_lord,
          period          |-> << current_lord, "Mahadasha" >>,
          duration_years  |-> DASHA_YEARS[current_lord],
          remaining_years |-> DASHA_YEARS[current_lord] * 5,
          start_date      |-> IsoFormat(birth_time),
          sequence        |-> DASHA_LORDS ]

-----------------------------------------------------------------------------
(* Rule engine.  planets maps the nine keys to PlanetaryPosition records;   *)
(* the degree field is in angle units.                                      *)

Abs(x) == IF x < 0 THEN 0 - x ELSE x

\* the list built by "if cond: list.append(x)"
AppendIf(cond, x) == IF cond THEN << x >> ELSE << >>

\* _check_gaja_kesari
CheckGajaKesari(jupiter, moon) ==
    jupiter.house \in {1, 4, 7, 10} /\ moon.house \in {1, 4, 7, 10}

\* _check_parivarthan
CheckParivarthan(planets) == FALSE

\* _check_dhana_yoga
CheckDhanaYoga(planets) ==
    LET house_2_planets  == {k \in DOMAIN planets : planets[k].house = 2}
        house_11_planets == {k \in DOMAIN planets : planets[k].house = 11}
    IN  Cardinality(house_2_planets) > 0 /\ Cardinality(house_11_planets) > 0

\* mutant of CheckGajakesari: the boundary of 30 degrees is exclusive
CheckGajakesari_Strict(planets) ==
    Abs(planets["jupiter"].degree - planets["moon"].degree) < 30 * Deg

\* _check_gajakesari
CheckGajakesari(planets) ==
    Abs(planets["jupiter"].degree - planets["moon"].degree) <= 30 * Deg

\* mutant of RajYoga: only the first house counts
RajYoga_FirstHouse(planets) == planets["jupiter"].house \in {1}

\* the condition of Raj Yoga (line 459)
RajYoga(planets) == planets["jupiter"].house \in {1, 4, 7, 10}

\* _detect_yogas
DetectYogas(planets, houses, ascendant) ==
    AppendIf(RajYoga(planets), "Raj Yoga")
      \o AppendIf(CheckGajaKesari(planets["jupiter"], planets["moon"]),
                  "Gaja Kesari Yoga")
      \o AppendIf(CheckParivarthan(planets), "Parivarthan Yoga")
      \o AppendIf(CheckDhanaYoga(planets), "Dhana Yoga")
      \o AppendIf(CheckGajakesari(planets), "Gaja Kesari Yoga")

\* mutant of CalculateDoshaSeverity: houses 2 and 12 are not told apart
CalculateDoshaSeverity_NoMedium(planet) ==
    IF planet.house \in {8} THEN "high" ELSE "low"

\* _calculate_dosha_severity
CalculateDoshaSeverity(planet) ==
    IF planet.house \in {8} THEN "high"
    ELSE IF planet.house \in {2, 12} THEN "medium"
    ELSE "low"

\* _check_kaal_sarp
CheckKaalSarp(planets) ==
    LET rahu_degree == planets["rahu"].degree
        ketu_degree == planets["ketu"].degree
    IN  Abs(rahu_degree - ketu_degree) > 170 * Deg

\* mutant of CheckPitraDosha: the conjunction boundary is exclusive
CheckPitraDosha_Strict(planets) ==
    LET diff == Abs(planets["sun"].degree - planets["saturn"].degree)
    IN  diff < 10 * Deg \/ diff >= 350 * Deg

\* _check_pitra_dosha
CheckPitraDosha(planets) ==
    LET sun_degree    == planets["sun"].degree
        saturn_degree == planets["saturn"].degree
        diff          == Abs(sun_degree - saturn_degree)
    IN  diff <= 10 * Deg \/ diff >= 350 * Deg

\* _detect_doshas
DetectDoshas(planets, houses) ==
    AppendIf(planets["mars"].house \in {1, 2, 4, 7, 8, 12},
             [ name        |-> "Mangal Dosha",
               severity    |-> CalculateDoshaSeverity(planets["mars"]),
               description |-> "Mars in inauspicious house",
               remedies    |-> << "Wear red coral",
                                  "Recite Hanuman Chalisa daily" >> ])
      \o AppendIf(CheckKaalSarp(planets),
             [ name        |-> "Kaal Sarp Dosha",
               severity    |-> "medium",
               description |-> "Rahu-Ketu on nodal axis",
               remedies    |-> << "Perform Nag Puja", "Worship Lord Shiva" >> ])
      \o AppendIf(CheckPitraDosha(planets),
             [ name        |-> "Pitra Dosha",
               severity    |-> "medium",
               description |-> "Indicates ancestral debts",
               remedies    |-> << "Perform Pitra Shradh", "Help the needy" >> ])

-----------------------------------------------------------------------------
(* AdvancedAstrologyEngine: Sripati cusps, Sade Sati, Ashtakvarga.  The    *)
(* longitudes are in angle units.                                          *)

\* calculate_sripati_houses: the list of 12 cusps
CalculateSripatiHouses(asc_lon, mc_lon) ==
    LET dist == (mc_lon - asc_lon) % Full
        step == dist \div 6
    IN  [i \in 1..12 |-> (asc_lon + ((i - 1) * step)) % Full]

\* mutant of SadeSatiPhase: the peak phase takes the distance 15
SadeSatiPhase_PeakTo15(diff) ==
    IF 0 - 45 * Deg <= diff /\ diff < 0 - 15 * Deg THEN "First Phase (Rising)"
    ELSE IF 0 - 15 * Deg <= diff /\ diff <= 15 * Deg THEN "Peak Phase (Core)"
    ELSE IF 15 * Deg <= diff /\ diff <= 45 * Deg THEN "Final Phase (Setting)"
    ELSE "None"

\* the phase of check_sade_sati (lines 96-99)
SadeSatiPhase(diff) ==
    IF 0 - 45 * Deg <= diff /\ diff < 0 - 15 * Deg THEN "First Phase (Rising)"
    ELSE IF 0 - 15 * Deg <= diff /\ diff < 15 * Deg THEN "Peak Phase (Core)"
    ELSE IF 15 * Deg <= diff /\ diff <= 45 * Deg THEN "Final Phase (Setting)"
    ELSE "None"

\* the two "if" statements that normalize diff (lines 92-93)
NormalizeDiff(diff) ==
    LET d1 == IF diff > 180 * Deg THEN diff - Full ELSE diff
    IN  IF d1 < 0 - 180 * Deg THEN d1 + Full ELSE d1

\* check_sade_sati
CheckSadeSati(natal_moon_lon, current_saturn_lon) ==
    LET diff == NormalizeDiff(current_saturn_lon - natal_moon_lon)
    IN  [ active   |-> (0 - 45 * Deg <= diff /\ diff <= 45 * Deg),
          phase    |-> SadeSatiPhase(diff),
          distance |-> diff ]

\* mutant of AshtakPoints: every other body adds a point
AshtakPoints_OthersCount(planet) ==
    IF planet \in {"Jupiter", "Venus"} THEN 4
    ELSE IF planet \in {"Saturn", "Mars"} THEN 2
    ELSE 1

\* the points one body adds to its house (lines 111-114)
AshtakPoints(planet) ==
    IF planet \in {"Jupiter", "Venus"} THEN 4
    ELSE IF planet \in {"Saturn", "Mars"} THEN 2
    ELSE 0

\* the loop of calculate_ashtakvarga over the items not yet visited
RECURSIVE AshtakLoop(_, _, _)
AshtakLoop(planets, keys, house_points) ==
    IF keys = {} THEN house_points
    ELSE LET p_name == CHOOSE k \in keys : TRUE
             data   == planets[p_name]
         IN  AshtakLoop(planets, keys \ {p_name},
                 [house_points EXCEPT
                     ![data.house] = @ + AshtakPoints(data.planet)])

\* calculate_ashtakvarga
CalculateAshtakvarga(planets) ==
    AshtakLoop(planets, DOMAIN planets, [i \in 1..12 |-> 0])

-----------------------------------------------------------------------------
(* The orchestrating operation *)

\* calculate_birth_chart: the BirthChartData it returns (nothing in its
\* try block raises for a valid datetime)
CalculateBirthChart(birth_datetime, latitude, longitude, timezone_offset, clock) ==
    LET Chart(planets, houses, ascendant) ==
            LET moon_planet    == planets["moon"]
                moon_nakshatra == GetNakshatra(moon_planet.degree)
                current_dasha  == CalculateDasha(moon_nakshatra, birth_datetime)
            IN  [ planets            |-> planets,
                  houses             |-> houses,
                  ascendant          |-> ascendant,
                  moon_nakshatra     |-> moon_nakshatra,
                  current_dasha      |-> current_dasha.period,
                  current_dasha_lord |-> current_dasha.lord,
                  yogas              |-> DetectYogas(planets, houses, ascendant),
                  doshas             |-> DetectDoshas(planets, houses),
                  calculated_at      |-> clock ]
        Steps(jd) ==
            One({Chart(planets, houses, ascendant) :
                    planets   \in {CalculatePlanets(jd, latitude, longitude)},
                    houses    \in {CalculateHouses(jd, latitude, longitude)},
                    ascendant \in {CalculateAscendant(jd, latitude, longitude)}})
    IN  One({Steps(jd) :
                jd \in {GregorianToJulianDate(birth_datetime, timezone_offset)}})

-----------------------------------------------------------------------------
(* The daily horoscope *)

\* str.title() on the strings given to the horoscope
Title(s) ==
    CASE s = "aries" -> "Aries" [] s = "ARIES" -> "Aries"
      [] s = "pisces" -> "Pisces" [] OTHER -> s

\* mutant of GetDailyHoroscope: the sign is looked up whatever its case
GetDailyHoroscope_AnyCase(zodiac_sign, clock) ==
    IF \A i \in 1..Len(ZODIAC_SIGNS) : ZODIAC_SIGNS[i] # Title(zodiac_sign)
    THEN [ status |-> "error", error |-> "ValueError" ]
    ELSE [ status |-> "ok",
           value  |-> [ sign         |-> zodiac_sign,
                        date         |-> clock,
                        mood         |-> "optimistic",
                        lucky_number |-> 7,
                        lucky_color  |-> "blue",
                        forecast     |-> "A favorable day for new initiatives",
                        romance      |-> "Positive energy in relationships",
                        career       |-> "Good for important meetings",
                        health       |-> "Pay attention to diet" ] ]

\* get_daily_horoscope: raises ValueError unless the sign is in the table
GetDailyHoroscope(zodiac_sign, clock) ==
    IF \A i \in 1..Len(ZODIAC_SIGNS) : ZODIAC_SIGNS[i] # zodiac_sign
    THEN [ status |-> "error", error |-> "ValueError" ]
    ELSE [ status |-> "ok",
           value  |-> [ sign         |-> zodiac_sign,
                        date         |-> clock,
                        mood         |-> "optimistic",
                        lucky_number |-> 7,
                        lucky_color  |-> "blue",
                        forecast     |-> "A favorable day for new initiatives",
                        romance      |-> "Positive energy in relationships",
                        career       |-> "Good for important meetings",
                        health       |-> "Pay attention to diet" ] ]

\* POST /astrology/horoscope/daily: any exception becomes
\* HTTPException(status_code=400)
RouteDailyHoroscope(sign, clock) ==
    LET horoscope == GetDailyHoroscope(sign, clock)
    IN  IF horoscope.status = "error"
        THEN [ status |-> "error", status_code |-> 400 ]
        ELSE [ status |-> "ok", status_code |-> 200,
               value |-> horoscope.value ]

-----------------------------------------------------------------------------
(* The /astrology/birth-chart route *)

\* the UTC offset, in minutes, of the default timezone_offset = 5.5
DefaultTimezoneOffset == (11 * 60) \div 2

\* datetime.strptime(f"{birth_date} {birth_time}", "%Y-%m-%d %H:%M:%S"):
\* raises ValueError unless the fields form a datetime
StrptimeOk(request) ==
    /\ ValidDate(request.birth_date.year, request.birth_date.month,
                 request.birth_date.day)
    /\ request.birth_time.hour \in 0..23
    /\ request.birth_time.minute \in 0..59
    /\ request.birth_time.second \in 0..59

Strptime(request) ==
    [ year   |-> request.birth_date.year,
      month  |-> request.birth_date.month,
      day    |-> request.birth_date.day,
      hour   |-> request.birth_time.hour,
      minute |-> request.birth_time.minute,
      second |-> request.birth_time.second ]

\* mutant of RouteBirthChart: the offset of the request's birth_timezone is
\* passed to the engine
RouteBirthChart_ByTimezone(request, clock) ==
    IF ~StrptimeOk(request)
    THEN [ status |-> "error", status_code |-> 400 ]
    ELSE [ status      |-> "ok",
           status_code |-> 200,
           value       |-> CalculateBirthChart(Strptime(request),
                               request.latitude, request.longitude,
                               IF request.birth_timezone = "UTC"
                               THEN 0 ELSE DefaultTimezoneOffset,
                               clock) ]

\* the route handler: any exception becomes HTTPException(status_code=400)
RouteBirthChart(request, clock) ==
    IF ~StrptimeOk(request)
    THEN [ status |-> "error", status_code |-> 400 ]
    ELSE [ status      |-> "ok",
           status_code |-> 200,
           value       |-> CalculateBirthChart(Strptime(request),
                               request.latitude, request.longitude,
                               DefaultTimezoneOffset, clock) ]

-----------------------------------------------------------------------------
(* Inputs *)

\* the birth datetime of test_calculate_birth_chart
TestBirth ==
    [ year |-> 1990, month |-> 5, day |-> 15,
      hour |-> 14, minute |-> 30, second |-> 0 ]

\* further birth datetimes: first days of a month, early in the day, so that
\* the UTC conversion crosses a day, a month (into a leap day) and a year
GenBirth(k) ==
    [ year |-> 1988 + 12 * k, month |-> ((2 * k) % 12) + 1, day |-> 1,
      hour |-> (3 * k) % 24, minute |-> (30 * k) % 60, second |-> 0 ]

\* a birth with the Moon, at the default offset, 26.84 degrees into its sign:
\* between the start of the third nakshatra span (26 2/3) and the next whole
\* degree
EdgeBirth ==
    [ year |-> 1988, month |-> 1, day |-> 1,
      hour |-> 0, minute |-> 30, second |-> 0 ]

BirthDatetimes ==
    {TestBirth, EdgeBirth} \cup {GenBirth(k) : k \in 0..MaxBirthIdx}

\* UTC offsets in minutes: +5.5 h, 0, -10 h
TimezoneOffsets == {DefaultTimezoneOffset, 0, 0 - 600}

\* latitudes in angle units: -90.0001, -90, 19.0760, 90, 91 degrees
Latitudes == {0 - 900001, 0 - 900000, 190760, 900000, 910000}

\* longitudes in angle units: -180.0001, -180, 0, 72.8777, 180, 181 degrees
Longitudes == {0 - 1800001, 0 - 1800000, 0, 728777, 1800000, 1810000}

\* requests to the route: the birth datetimes and one date that does not exist
BirthDates ==
    {[year |-> d.year, month |-> d.month, day |-> d.day] : d \in BirthDatetimes}
      \cup {[year |-> 1990, month |-> 2, day |-> 30]}

Requests ==
    [ birth_date          : BirthDates,
      birth_time          : {[hour |-> 14, minute |-> 30, second |-> 0]},
      birth_timezone      : {"Asia/Kolkata", "UTC"},
      latitude            : Latitudes,
      longitude           : Longitudes,
      birth_location_name : {"Mumbai, India", "Greenwich"} ]

\* Julian Dates given to _get_house
GenJd(k) == << 2448026 + 1234 * k, (1260 + 437 * k) % DayMin >>

\* ecliptic longitudes in [0, 360): in every sign its first two values, its
\* middle and its last value
LongitudeSamples ==
    {s * 30 * Deg + e : s \in 0..11, e \in {0, 1, 15 * Deg, 30 * Deg - 1}}

\* Mahadasha start datetimes <<ordinal day, second of the day>>
GenStart(k) == << 726602 + 977 * k, (52200 + 30011 * k) % DaySec >>

\* degree values for the rule engine, in angle units: 0, 5, 9.99, 10, 10.01,
\* 50, 55, 60.01, 190, 349.99, 350 and 359 degrees
DegreeSamples ==
    {0, 50000, 99900, 100000, 100100, 500000, 550000, 600100, 1900000,
     3499900, 3500000, 3590000}

\* mock_planet(house, degree) of the tests
MockPlanet(house, degree) ==
    [ planet |-> "mock", sign |-> "Aries", degree |-> degree, minute |-> 0,
      second |-> 0, house |-> house, speed |-> 0, retrograde |-> FALSE,
      nakshatra |-> "Ashwini", nakshatra_pad |-> 1 ]

\* the planets of test_detect_doshas with the fields the rules read replaced
MockDoshaPlanets(mars_house, rahu, ketu, sun, saturn) ==
    [k \in PlanetKeys |->
        CASE k = "mars"   -> MockPlanet(mars_house, 0)
          [] k = "rahu"   -> MockPlanet(1, rahu)
          [] k = "ketu"   -> MockPlanet(7, ketu)
          [] k = "sun"    -> MockPlanet(5, sun)
          [] k = "saturn" -> MockPlanet(5, saturn)
          [] OTHER        -> MockPlanet(2, 0)]

DoshaInputs ==
    {MockDoshaPlanets(h, n[1], n[2], 50 * Deg, 55 * Deg) :
        h \in 1..12,
        n \in {<<10 * Deg, 190 * Deg>>, <<0, 170 * Deg>>, <<27 * Deg, 27 * Deg>>}}
      \cup {MockDoshaPlanets(8, 10 * Deg, 190 * Deg, a, b) :
                a \in DegreeSamples, b \in DegreeSamples}

\* the planets of test_detect_yogas with the fields the rules read replaced:
\* houses and degrees of Jupiter and the Moon, houses of the Sun and Venus
MockYogaPlanets(jupiter, moon, sun_house, venus_house) ==
    [k \in PlanetKeys |->
        CASE k = "jupiter" -> MockPlanet(jupiter[1], jupiter[2])
          [] k = "moon"    -> MockPlanet(moon[1], moon[2])
          [] k = "mars"    -> MockPlanet(8, 0)
          [] k = "sun"     -> MockPlanet(sun_house, 0)
          [] k = "venus"   -> MockPlanet(venus_house, 0)
          [] k = "rahu"    -> MockPlanet(2, 0)
          [] k = "ketu"    -> MockPlanet(8, 0)
          [] OTHER         -> MockPlanet(5, 0)]

\* Jupiter in every house; the Moon in and out of the angular houses; degree
\* values 0, 30, 30.01 and 45 degrees apart; the Sun and Venus in houses 5, 5
\* and in houses 3, 11
YogaInputs ==
    {MockYogaPlanets(<<jh, d[1]>>, <<mh, d[2]>>, o[1], o[2]) :
        jh \in 1..12, mh \in {1, 2, 4, 10},
        d \in {<<0, 0>>, <<0, 30 * Deg>>, <<30 * Deg + 100, 0>>,
               <<45 * Deg, 0>>},
        o \in {<<5, 5>>, <<3, 11>>}}

\* longitudes given to calculate_sripati_houses: every 15 degrees
SripatiSamples == {k * 15 * Deg : k \in 0..23}

\* longitudes in [0, 360) given to check_sade_sati: 0, 14.9999, 15, 44, 45,
\* 45.0001, 46, 56, 100, 180, 180.0001, 270, 315, 316, 345, 359.9999 degrees
SadeSatiSamples ==
    {0, 149999, 150000, 440000, 450000, 450001, 460000, 560000, 1000000,
     1800000, 1800001, 2700000, 3150000, 3160000, 3450000, 3599999}

\* a PlanetaryPosition of the named body in a house
NamedPlanet(planet, house) == [MockPlanet(house, 0) EXCEPT !.planet = planet]

\* planets given to calculate_ashtakvarga: the two benefic and the two malefic
\* bodies together and apart, the other five bodies in house 1 or house 5
AshtakInputs ==
    {[k \in PlanetKeys |->
        LET planet == PLANETS[CHOOSE i \in 1..Len(PLANETS) :
                                 Lower(PLANETS[i]) = k]
        IN  CASE k = "jupiter" -> NamedPlanet(planet, h[1])
              [] k = "venus"   -> NamedPlanet(planet, h[2])
              [] k = "saturn"  -> NamedPlanet(planet, h[3])
              [] k = "mars"    -> NamedPlanet(planet, h[4])
              [] OTHER         -> NamedPlanet(planet, h[5])] :
        h \in {1, 4, 12} \X {1, 4, 7} \X {1, 4, 10} \X {1, 10, 12} \X {1, 5}}

\* geographic longitudes given to _calculate_houses: those of the requests
\* and every 45 degrees from -180 to 180
GeoLongitudeSamples == Longitudes \cup {k * 45 * Deg - 180 * Deg : k \in 0..8}

\* arguments of the invocations of calculate_birth_chart that run side by side
InvocationInputs ==
    [ birth_datetime  : {TestBirth, GenBirth(0)},
      latitude        : {190760},
      longitude       : {728777, 0},
      timezone_offset : {DefaultTimezoneOffset} ]

-----------------------------------------------------------------------------
(* Invocations of calculate_birth_chart side by side on one calculator.    *)
(* An invocation executes the statements of the try block one at a time;   *)
(* inv[t].pc names the variable its next statement assigns.                *)

\* the threads that call calculate_birth_chart
Threads == {"t1", "t2"}

\* the fields of the calculator (set by __init__, lines 151-153) and the
\* module's tables
InitialShared ==
    [ zodiac_signs |-> ZODIAC_SIGNS,
      nakshatras   |-> NAKSHATRAS,
      planets      |-> PLANETS,
      DASHA_LORDS  |-> DASHA_LORDS,
      DASHA_YEARS  |-> DASHA_YEARS ]

\* a mutable object made by a statement of invocation t: a dict or a list
\* literal makes a new object every time it is executed
NewObject(t, name) == << t, name >>

\* the module's list DASHA_LORDS, which _calculate_dasha returns as "sequence"
DashaLordsObject == << "module", "DASHA_LORDS" >>

NoObject == << "none", "none" >>

\* a thread that is not in calculate_birth_chart
IdleInvocation == [ pc |-> "idle", input |-> << >>, result |-> << >> ]

\* a frame whose local variables are not assigned yet (no statement reads
\* one before it is assigned; the values stand for "unbound")
NoLocals ==
    [ jd             |-> << 2451545, 0 >>,
      planets        |-> [k \in PlanetKeys |-> MockPlanet(1, 0)],
      houses         |-> [i \in 1..12 |-> "Aries"],
      ascendant      |-> "Aries",
      moon_nakshatra |-> "Ashwini",
      current_dasha  |-> [ lord |-> "Ketu", period |-> << "Ketu", "Mahadasha" >> ],
      yogas          |-> << >>,
      doshas         |-> << >>,
      refs           |-> [ planets |-> NoObject, houses |-> NoObject,
                           sequence |-> NoObject, yogas |-> NoObject,
                           doshas |-> NoObject ] ]

\* mutant of FrameOf: the intermediate values are kept in one place for all
\* invocations (fields of the calculator)
FrameOf_OnCalculator(t) == "t1"

\* where invocation t keeps jd, planets, houses, ...: they are local
\* variables, so every invocation has its own
FrameOf(t) == t

\* mutant of BuildChart: the dasha lord is advanced by the time of the call
BuildChart_DashaByClock(t, frame, clock) ==
    [ chart |->
        [ planets            |-> frame.planets,
          houses             |-> frame.houses,
          ascendant          |-> frame.ascendant,
          moon_nakshatra     |-> frame.moon_nakshatra,
          current_dasha      |-> frame.current_dasha.period,
          current_dasha_lord |->
              DASHA_LORDS[((IndexOf(DASHA_LORDS, frame.current_dasha.lord)
                              + clock) % 9) + 1],
          yogas              |-> frame.yogas,
          doshas             |-> frame.doshas,
          calculated_at      |-> clock ],
      objects |-> { NewObject(t, "birth_chart"), frame.refs.planets,
                    frame.refs.houses, frame.refs.yogas, frame.refs.doshas } ]

\* birth_chart = BirthChartData(...): the chart and the mutable objects it
\* refers to (current_dasha gives it two strings only)
BuildChart(t, frame, clock) ==
    [ chart |->
        [ planets            |-> frame.planets,
          houses             |-> frame.houses,
          ascendant          |-> frame.ascendant,
          moon_nakshatra     |-> frame.moon_nakshatra,
          current_dasha      |-> frame.current_dasha.period,
          current_dasha_lord |-> frame.current_dasha.lord,
          yogas              |-> frame.yogas,
          doshas             |-> frame.doshas,
          calculated_at      |-> clock ],
      objects |-> { NewObject(t, "birth_chart"), frame.refs.planets,
                    frame.refs.houses, frame.refs.yogas, frame.refs.doshas } ]

\* strings given to the horoscope: the 12 signs, signs in another case or
\* with a blank, a thirteenth sign, the empty string
SignInputs ==
    {ZODIAC_SIGNS[i] : i \in 1..Len(ZODIAC_SIGNS)}
      \cup {"aries", "ARIES", "pisces", "Aries ", "Ophiuchus", ""}

-----------------------------------------------------------------------------
(* The state machine: a caller invokes one operation at a time (pc goes      *)
(* from "idle" to "done"), reads the result and goes on; the clock ticks     *)
(* between calls.                                                           *)

Init ==
    /\ pc = "idle"
    /\ op = "none"
    /\ args = << >>
    /\ ret = << >>
    /\ now = 0
    /\ inv = [t \in Threads |-> IdleInvocation]
    /\ locals = [t \in Threads |-> NoLocals]
    /\ shared = InitialShared

\* time passes
Tick ==
    /\ pc = "idle"
    /\ now < MaxNow
    /\ now' = now + 1
    /\ UNCHANGED <<caller, threads>>

\* AstrologyCalculator.calculate_birth_chart
CallCalculateBirthChart ==
    \E dt \in BirthDatetimes, lat \in Latitudes, lon \in Longitudes,
       tz \in TimezoneOffsets :
        /\ pc = "idle"
        /\ pc' = "done"
        /\ op' = "calculate_birth_chart"
        /\ args' = [ birth_datetime |-> dt, latitude |-> lat,
                     longitude |-> lon, timezone_offset |-> tz ]
        /\ ret' = [ status |-> "ok",
                    value  |-> CalculateBirthChart(dt, lat, lon, tz, now) ]
        /\ UNCHANGED <<now, threads>>

\* POST /astrology/birth-chart
CallRouteBirthChart ==
    \E request \in Requests :
        /\ pc = "idle"
        /\ pc' = "done"
        /\ op' = "route_birth_chart"
        /\ args' = [ request |-> request ]
        /\ ret' = RouteBirthChart(request, now)
        /\ UNCHANGED <<now, threads>>

\* AstrologyCalculator._get_house
CallGetHouse ==
    \E longitude \in LongitudeSamples, k \in 0..MaxJdIdx :
        /\ pc = "idle"
        /\ pc' = "done"
        /\ op' = "_get_house"
        /\ args' = [ longitude |-> longitude, latitude |-> 190760,
                     jd |-> GenJd(k) ]
        /\ ret' = [ status  |-> "ok",
                    value   |-> GetHouse(longitude, 190760, GenJd(k)),
                    matched |-> HouseMatches(longitude, 190760, GenJd(k)) # {} ]
        /\ UNCHANGED <<now, threads>>

\* AdvancedAstrologyEngine.get_antardasha
CallGetAntardasha ==
    \E i \in 1..Len(DASHA_LORDS), k \in 0..MaxStartIdx :
        /\ pc = "idle"
        /\ pc' = "done"
        /\ op' = "get_antardasha"
        /\ args' = [ mahadasha_lord |-> DASHA_LORDS[i],
                     start_date |-> GenStart(k) ]
        /\ ret' = [ status |-> "ok",
                    value  |-> GetAntardasha(DASHA_LORDS[i], GenStart(k)) ]
        /\ UNCHANGED <<now, threads>>

\* AstrologyCalculator._calculate_dasha
CallCalculateDasha ==
    \E i \in 1..Len(NAKSHATRAS), dt \in BirthDatetimes :
        /\ pc = "idle"
        /\ pc' = "done"
        /\ op' = "_calculate_dasha"
        /\ args' = [ moon_nakshatra |-> NAKSHATRAS[i], birth_time |-> dt ]
        /\ ret' = [ status |-> "ok",
                    value  |-> CalculateDasha(NAKSHATRAS[i], dt) ]
        /\ UNCHANGED <<now, threads>>

\* AstrologyCalculator._detect_doshas
CallDetectDoshas ==
    \E planets \in DoshaInputs :
        /\ pc = "idle"
        /\ pc' = "done"
        /\ op' = "_detect_doshas"
        /\ args' = [ planets |-> planets ]
        /\ ret' = [ status |-> "ok",
                    value  |-> DetectDoshas(planets, << >>) ]
        /\ UNCHANGED <<now, threads>>

\* AstrologyCalculator._detect_yogas
CallDetectYogas ==
    \E planets \in YogaInputs :
        /\ pc = "idle"
        /\ pc' = "done"
        /\ op' = "_detect_yogas"
        /\ args' = [ planets |-> planets ]
        /\ ret' = [ status |-> "ok",
                    value  |-> DetectYogas(planets, << >>, "Aries") ]
        /\ UNCHANGED <<now, threads>>

\* AdvancedAstrologyEngine.check_sade_sati
CallCheckSadeSati ==
    \E moon \in SadeSatiSamples, saturn \in SadeSatiSamples :
        /\ pc = "idle"
        /\ pc' = "done"
        /\ op' = "check_sade_sati"
        /\ args' = [ natal_moon_lon |-> moon, current_saturn_lon |-> saturn ]
        /\ ret' = [ status |-> "ok", value |-> CheckSadeSati(moon, saturn) ]
        /\ UNCHANGED <<now, threads>>

\* AdvancedAstrologyEngine.calculate_ashtakvarga
CallCalculateAshtakvarga ==
    \E planets \in AshtakInputs :
        /\ pc = "idle"
        /\ pc' = "done"
        /\ op' = "calculate_ashtakvarga"
        /\ args' = [ planets |-> planets ]
        /\ ret' = [ status |-> "ok", value |-> CalculateAshtakvarga(planets) ]
        /\ UNCHANGED <<now, threads>>

\* AdvancedAstrologyEngine.calculate_sripati_houses
CallCalculateSripatiHouses ==
    \E asc_lon \in SripatiSamples, mc_lon \in SripatiSamples :
        /\ pc = "idle"
        /\ pc' = "done"
        /\ op' = "calculate_sripati_houses"
        /\ args' = [ asc_lon |-> asc_lon, mc_lon |-> mc_lon ]
        /\ ret' = [ status |-> "ok",
                    value  |-> CalculateSripatiHouses(asc_lon, mc_lon) ]
        /\ UNCHANGED <<now, threads>>

\* AstrologyCalculator._calculate_houses
CallCalculateHouses ==
    \E longitude \in GeoLongitudeSamples, k \in 0..MaxJdIdx :
        /\ pc = "idle"
        /\ pc' = "done"
        /\ op' = "_calculate_houses"
        /\ args' = [ jd |-> GenJd(k), latitude |-> 190760,
                     longitude |-> longitude ]
        /\ ret' = [ status |-> "ok",
                    value  |-> CalculateHouses(GenJd(k), 190760, longitude) ]
        /\ UNCHANGED <<now, threads>>

\* AstrologyCalculator.get_daily_horoscope
CallGetDailyHoroscope ==
    \E sign \in SignInputs :
        /\ pc = "idle"
        /\ pc' = "done"
        /\ op' = "get_daily_horoscope"
        /\ args' = [ zodiac_sign |-> sign ]
        /\ ret' = GetDailyHoroscope(sign, now)
        /\ UNCHANGED <<now, threads>>

\* POST /astrology/horoscope/daily
CallRouteDailyHoroscope ==
    \E sign \in SignInputs :
        /\ pc = "idle"
        /\ pc' = "done"
        /\ op' = "route_daily_horoscope"
        /\ args' = [ sign |-> sign ]
        /\ ret' = RouteDailyHoroscope(sign, now)
        /\ UNCHANGED <<now, threads>>

\* AstrologyCalculator._calculate_planet_longitude, and the sign index and
\* the degree in the sign that _calculate_planets takes from its result
CallCalculatePlanetLongitude ==
    \E i \in 1..Len(PLANETS), k \in 0..MaxJdIdx :
        /\ pc = "idle"
        /\ pc' = "done"
        /\ op' = "_calculate_planet_longitude"
        /\ args' = [ jd |-> GenJd(k), planet |-> PLANETS[i] ]
        /\ ret' = One({[ status         |-> "ok",
                         value          |-> lon,
                         sign_idx       |-> SignIdx(lon),
                         degree_in_sign |-> DegreeInSign(lon) ] :
                       lon \in {CalculatePlanetLongitude(GenJd(k), PLANETS[i])}})
        /\ UNCHANGED <<now, threads>>

\* the caller has read the result
Return ==
    /\ pc = "done"
    /\ pc' = "idle"
    /\ op' = "none"
    /\ args' = << >>
    /\ ret' = << >>
    /\ UNCHANGED <<now, threads>>

Next ==
    \/ Tick
    \/ CallCalculateBirthChart
    \/ CallRouteBirthChart
    \/ CallGetHouse
    \/ CallGetAntardasha
    \/ CallCalculateDasha
    \/ CallDetectDoshas
    \/ CallDetectYogas
    \/ CallCheckSadeSati
    \/ CallCalculateAshtakvarga
    \/ CallCalculateSripatiHouses
    \/ CallCalculateHouses
    \/ CallGetDailyHoroscope
    \/ CallRouteDailyHoroscope
    \/ CallCalculatePlanetLongitude
    \/ Return

Spec == Init /\ [][Next]_vars

-----------------------------------------------------------------------------
(* The state machine of the invocations side by side: a thread enters      *)
(* calculate_birth_chart, executes its statements in order, each in one    *)
(* step, and returns; the steps of the threads interleave freely and the   *)
(* clock ticks in between.                                                 *)

\* invocation t assigns the local variable named by its pc and goes on
Assign(t, at, value, next) ==
    /\ inv[t].pc = at
    /\ locals' = [locals EXCEPT ![FrameOf(t)][at] = value]
    /\ inv' = [inv EXCEPT ![t].pc = next]
    /\ UNCHANGED <<caller, now, shared>>

\* the same for a variable that holds a new mutable object
AssignObject(t, at, value, next) ==
    /\ inv[t].pc = at
    /\ locals' = [locals EXCEPT ![FrameOf(t)][at] = value,
                                ![FrameOf(t)].refs[at] = NewObject(t, at)]
    /\ inv' = [inv EXCEPT ![t].pc = next]
    /\ UNCHANGED <<caller, now, shared>>

\* a thread calls calculate_birth_chart: a new frame
Invoke(t) ==
    \E input \in InvocationInputs :
        /\ inv[t].pc = "idle"
        /\ inv' = [inv EXCEPT ![t] = [ pc |-> "jd", input |-> input,
                                       result |-> << >> ]]
        /\ locals' = [locals EXCEPT ![FrameOf(t)] = NoLocals]
        /\ UNCHANGED <<caller, now, shared>>

\* jd = self._gregorian_to_julian_date(birth_datetime, timezone_offset)
StepJd(t) ==
    Assign(t, "jd",
           GregorianToJulianDate(inv[t].input.birth_datetime,
                                 inv[t].input.timezone_offset),
           "planets")

\* planets = self._calculate_planets(jd, latitude, longitude)
StepPlanets(t) ==
    AssignObject(t, "planets",
                 CalculatePlanets(locals[FrameOf(t)].jd, inv[t].input.latitude,
                                  inv[t].input.longitude),
                 "houses")

\* houses = self._calculate_houses(jd, latitude, longitude)
StepHouses(t) ==
    AssignObject(t, "houses",
                 CalculateHouses(locals[FrameOf(t)].jd, inv[t].input.latitude,
                                 inv[t].input.longitude),
                 "ascendant")

\* ascendant = self._calculate_ascendant(jd, latitude, longitude)
StepAscendant(t) ==
    Assign(t, "ascendant",
           CalculateAscendant(locals[FrameOf(t)].jd, inv[t].input.latitude,
                              inv[t].input.longitude),
           "moon_nakshatra")

\* moon_nakshatra = self._get_nakshatra(planets["moon"].degree)
StepMoonNakshatra(t) ==
    Assign(t, "moon_nakshatra",
           GetNakshatra(locals[FrameOf(t)].planets["moon"].degree),
           "current_dasha")

\* current_dasha = self._calculate_dasha(moon_nakshatra, birth_datetime):
\* a new dict whose "sequence" is the module's list
StepDasha(t) ==
    /\ inv[t].pc = "current_dasha"
    /\ locals' = [locals EXCEPT
          ![FrameOf(t)].current_dasha =
              CalculateDasha(locals[FrameOf(t)].moon_nakshatra,
                             inv[t].input.birth_datetime),
          ![FrameOf(t)].refs.sequence = DashaLordsObject]
    /\ inv' = [inv EXCEPT ![t].pc = "yogas"]
    /\ UNCHANGED <<caller, now, shared>>

\* yogas = self._detect_yogas(planets, houses, ascendant)
StepYogas(t) ==
    AssignObject(t, "yogas",
                 DetectYogas(locals[FrameOf(t)].planets,
                             locals[FrameOf(t)].houses,
                             locals[FrameOf(t)].ascendant),
                 "doshas")

\* doshas = self._detect_doshas(planets, houses)
StepDoshas(t) ==
    AssignObject(t, "doshas",
                 DetectDoshas(locals[FrameOf(t)].planets,
                              locals[FrameOf(t)].houses),
                 "birth_chart")

\* birth_chart = BirthChartData(..., calculated_at=datetime.now()); return:
\* the frame is gone
StepChart(t) ==
    /\ inv[t].pc = "birth_chart"
    /\ inv' = [inv EXCEPT
          ![t].pc = "returned",
          ![t].result = BuildChart(t, locals[FrameOf(t)], now)]
    /\ locals' = [locals EXCEPT ![FrameOf(t)] = NoLocals]
    /\ UNCHANGED <<caller, now, shared>>

\* the thread has read the chart and drops it
Collect(t) ==
    /\ inv[t].pc = "returned"
    /\ inv' = [inv EXCEPT ![t] = IdleInvocation]
    /\ UNCHANGED <<caller, now, locals, shared>>

NextConcurrent ==
    \/ Tick
    \/ \E t \in Threads : Invoke(t)
    \/ \E t \in Threads : StepJd(t)
    \/ \E t \in Threads : StepPlanets(t)
    \/ \E t \in Threads : StepHouses(t)
    \/ \E t \in Threads : StepAscendant(t)
    \/ \E t \in Threads : StepMoonNakshatra(t)
    \/ \E t \in Threads : StepDasha(t)
    \/ \E t \in Threads : StepYogas(t)
    \/ \E t \in Threads : StepDoshas(t)
    \/ \E t \in Threads : StepChart(t)
    \/ \E t \in Threads : Collect(t)

SpecConcurrent == Init /\ [][NextConcurrent]_vars

-----------------------------------------------------------------------------
(* Properties *)

\* a call of op has returned
Returned(name) == pc = "done" /\ op = name

\* a chart has been returned by calculate_birth_chart
ChartReturned == Returned("calculate_birth_chart") /\ ret.status = "ok"

\* x lies in the circular range [from, to)
InCircularRange(from, to, x) == (x - from) % Full < (to - from) % Full

\* the ecliptic longitude of body k of the chart just computed
BodyLongitude(k) ==
    CalculatePlanetLongitude(
        GregorianToJulianDate(args.birth_datetime, args.timezone_offset),
        ret.value.planets[k].planet)

\* the names of a list of dosha records
DoshaNames(doshas) == {doshas[i].name : i \in 1..Len(doshas)}

ValidCoordinates(latitude, longitude) ==
    /\ 0 - 90 * Deg <= latitude /\ latitude <= 90 * Deg
    /\ 0 - 180 * Deg <= longitude /\ longitude <= 180 * Deg

\* C1: a call of calculate_birth_chart, or a request to the route, with a
\* latitude outside [-90, 90] or a longitude outside [-180, 180] ends in an
\* error and returns no chart.
C1_OutOfRangeRejected ==
    /\ (Returned("calculate_birth_chart")
          /\ ~ValidCoordinates(args.latitude, args.longitude))
        => ret.status = "error"
    /\ (Returned("route_birth_chart")
          /\ ~ValidCoordinates(args.request.latitude, args.request.longitude))
        => ret.status = "error"

\* C2: for every longitude in [0, 360) and every Julian Date exactly one
\* house has a circular range [house_start, next house_start) holding the
\* longitude, _get_house returns it, and the default of house 1 is not used.
C2_HouseAssignmentTotal ==
    Returned("_get_house") =>
        LET houses   == CalculateHouses(args.jd, args.latitude, 0)
            start(i) == GetHouseCuspLongitude(houses[i])
            holding  == {i \in 1..12 :
                           InCircularRange(start(i), start((i % 12) + 1),
                                           args.longitude)}
        IN  /\ Cardinality(holding) = 1
            /\ ret.value \in holding
            /\ ret.matched

\* C2 witness: a longitude in the range that wraps through 360/0 (the house
\* of Pisces), found by the loop in a house other than the first.
C2_Witness ==
    /\ Returned("_get_house")
    /\ args.longitude = 345 * Deg
    /\ ret.matched
    /\ ret.value # 1

\* C3: in a returned chart every body's house is the house of the chart's own
\* house table whose range [cusp(i), cusp(i+1)), taken circularly, holds the
\* body's ecliptic longitude.
C3_HouseFromChartTable ==
    ChartReturned =>
        \A k \in PlanetKeys :
            LET houses == ret.value.houses
                h      == ret.value.planets[k].house
            IN  InCircularRange(GetHouseCuspLongitude(houses[h]),
                                GetHouseCuspLongitude(houses[(h % 12) + 1]),
                                BodyLongitude(k))

\* C4: in a returned chart the ascendant is the sign of house 1.
C4_AscendantIsHouseOne ==
    ChartReturned => ret.value.ascendant = ret.value.houses[1]

\* C5: in a returned chart every body's nakshatra is the name at index
\* floor(L / (360/27)) of the 27 names, L the body's ecliptic longitude.
C5_NakshatraFromLongitude ==
    ChartReturned =>
        \A k \in PlanetKeys :
            ret.value.planets[k].nakshatra
                = NAKSHATRAS[((BodyLongitude(k) * 27) \div Full) + 1]

\* C6: every chart computed from valid input lists Kaal Sarp Dosha.
C6_KaalSarpAlways ==
    (ChartReturned /\ ValidCoordinates(args.latitude, args.longitude))
        => "Kaal Sarp Dosha" \in DoshaNames(ret.value.doshas)

\* C7: the 9 sub-periods tile the major period: the first starts on the
\* start date, each later one starts where the one before ends, every end is
\* the date of the start plus the durations so far, each duration being
\* major_years * sub_lord_years / 120 * 365.25 days (262980 s per product
\* of years), and the last ends major_years * 365.25 days after the start.
C7_AntardashaTiles ==
    Returned("get_antardasha") =>
        LET subs  == ret.value
            m     == DASHA_YEARS[args.mahadasha_lord]
            secs(i) == m * DASHA_YEARS[subs[i].lord] * 262980
            RECURSIVE upto(_)
            upto(i) == IF i = 0 THEN 0 ELSE upto(i - 1) + secs(i)
        IN  /\ Len(subs) = 9
            /\ subs[1].start = args.start_date[1]
            /\ \A i \in 1..8 : subs[i + 1].start = subs[i].end
            /\ \A i \in 1..9 :
                  subs[i].end = AddSeconds(args.start_date, upto(i))[1]
            /\ upto(9) = m * 36525 * 864

\* C7 witness: the 20-year Venus period, whose last sub-period ends 7305
\* days after the start.
C7_Witness ==
    /\ Returned("get_antardasha")
    /\ args.mahadasha_lord = "Venus"
    /\ ret.value[1].start = args.start_date[1]
    /\ ret.value[9].end = args.start_date[1] + 7305

\* the lord after l in the cycle Ketu, Venus, Sun, Moon, Mars, Rahu, Jupiter,
\* Saturn, Mercury
LordAfter(l) ==
    CASE l = "Ketu" -> "Venus" [] l = "Venus" -> "Sun" [] l = "Sun" -> "Moon"
      [] l = "Moon" -> "Mars" [] l = "Mars" -> "Rahu" [] l = "Rahu" -> "Jupiter"
      [] l = "Jupiter" -> "Saturn" [] l = "Saturn" -> "Mercury"
      [] l = "Mercury" -> "Ketu"

\* C8: get_antardasha returns exactly 9 sub-periods; the first lord is the
\* major lord, each next lord follows in the fixed cycle, and each of the 9
\* lords appears exactly once.
C8_AntardashaLords ==
    Returned("get_antardasha") =>
        LET subs == ret.value
        IN  /\ Len(subs) = 9
            /\ subs[1].lord = args.mahadasha_lord
            /\ \A i \in 1..8 : subs[i + 1].lord = LordAfter(subs[i].lord)
            /\ \A i, j \in 1..9 : subs[i].lord = subs[j].lord => i = j
            /\ {subs[i].lord : i \in 1..9} = {DASHA_LORDS[i] : i \in 1..9}

\* C8 witness: a major lord at the end of the cycle, so that the sub-periods
\* wrap around to Ketu.
C8_Witness ==
    /\ Returned("get_antardasha")
    /\ args.mahadasha_lord = "Mercury"
    /\ ret.value[2].lord = "Ketu"
    /\ ret.value[9].lord = "Saturn"

\* C9: for the nakshatra at position n (0..26) _calculate_dasha reports the
\* lord at position n mod 9 of (Ketu, Venus, Sun, Moon, Mars, Rahu, Jupiter,
\* Saturn, Mercury) and that lord's fixed number of years.
C9_DashaLordByNakshatra ==
    Returned("_calculate_dasha") =>
        \A n \in 0..26 :
            NAKSHATRAS[n + 1] = args.moon_nakshatra =>
                /\ ret.value.lord
                     = << "Ketu", "Venus", "Sun", "Moon", "Mars", "Rahu",
                          "Jupiter", "Saturn", "Mercury" >>[(n % 9) + 1]
                /\ ret.value.duration_years = DASHA_YEARS[ret.value.lord]

\* C9 witness: the last nakshatra, Revati (position 26), gives Mercury, 17 years.
C9_Witness ==
    /\ Returned("_calculate_dasha")
    /\ args.moon_nakshatra = "Revati"
    /\ ret.value.lord = "Mercury"
    /\ ret.value.duration_years = 17

\* |Sun degree - Saturn degree| of the planets given to _detect_doshas
SunSaturnDiff ==
    LET d == args.planets["sun"].degree - args.planets["saturn"].degree
    IN  IF d >= 0 THEN d ELSE 0 - d

DoshasNamed(doshas, name) ==
    {doshas[i] : i \in {j \in 1..Len(doshas) : doshas[j].name = name}}

\* C11: _detect_doshas lists Mangal Dosha exactly when the house of Mars is
\* one of 1, 2, 4, 7, 8, 12, with severity high for house 8, medium for
\* houses 2 and 12, low for houses 1, 4 and 7.
C11_MangalDosha ==
    Returned("_detect_doshas") =>
        LET h      == args.planets["mars"].house
            mangal == DoshasNamed(ret.value, "Mangal Dosha")
        IN  /\ (mangal # {}) <=> (h \in {1, 2, 4, 7, 8, 12})
            /\ \A d \in mangal :
                  d.severity = CASE h = 8          -> "high"
                                 [] h \in {2, 12} -> "medium"
                                 [] OTHER         -> "low"

\* C11 witness: Mars in house 12, Mangal Dosha of medium severity.
C11_Witness ==
    /\ Returned("_detect_doshas")
    /\ args.planets["mars"].house = 12
    /\ \E d \in DoshasNamed(ret.value, "Mangal Dosha") : d.severity = "medium"

\* the set of names of a list of yogas
YogaNames(yogas) == {yogas[i] : i \in 1..Len(yogas)}

\* C12: _detect_yogas lists Raj Yoga exactly when the house of Jupiter is one
\* of 1, 4, 7, 10, wherever the other bodies are.
C12_RajYoga ==
    Returned("_detect_yogas") =>
        ("Raj Yoga" \in YogaNames(ret.value))
            <=> (args.planets["jupiter"].house \in {1, 4, 7, 10})

\* C12 witness: Jupiter in house 10 with the Moon outside the angular
\* houses, Raj Yoga listed.
C12_Witness ==
    /\ Returned("_detect_yogas")
    /\ args.planets["jupiter"].house = 10
    /\ args.planets["moon"].house = 2
    /\ "Raj Yoga" \in YogaNames(ret.value)

\* |Jupiter degree - Moon degree| of the planets given to _detect_yogas
JupiterMoonDiff ==
    LET d == args.planets["jupiter"].degree - args.planets["moon"].degree
    IN  IF d >= 0 THEN d ELSE 0 - d

\* C13: _detect_yogas lists Gaja Kesari Yoga exactly when Jupiter and the
\* Moon are both in houses 1, 4, 7, 10 or their degree values differ by at
\* most 30.
C13_GajaKesari ==
    Returned("_detect_yogas") =>
        ("Gaja Kesari Yoga" \in YogaNames(ret.value))
            <=> \/ /\ args.planets["jupiter"].house \in {1, 4, 7, 10}
                   /\ args.planets["moon"].house \in {1, 4, 7, 10}
                \/ JupiterMoonDiff <= 300000

\* C13 witness: degree values exactly 30 apart, not both bodies angular,
\* Gaja Kesari Yoga listed.
C13_Witness ==
    /\ Returned("_detect_yogas")
    /\ JupiterMoonDiff = 300000
    /\ args.planets["moon"].house = 2
    /\ "Gaja Kesari Yoga" \in YogaNames(ret.value)

\* C14: check_sade_sati is active exactly when the distance d it returns has
\* |d| <= 45; the phase is rising for -45 <= d < -15, peak for -15 <= d < 15,
\* setting for 15 <= d <= 45, and "None" exactly when the result is inactive.
C14_SadeSatiPhases ==
    Returned("check_sade_sati") =>
        LET d == ret.value.distance
        IN  /\ ret.value.active <=> (0 - 450000 <= d /\ d <= 450000)
            /\ (0 - 450000 <= d /\ d < 0 - 150000)
                  => ret.value.phase = "First Phase (Rising)"
            /\ (0 - 150000 <= d /\ d < 150000)
                  => ret.value.phase = "Peak Phase (Core)"
            /\ (150000 <= d /\ d <= 450000)
                  => ret.value.phase = "Final Phase (Setting)"
            /\ (ret.value.phase = "None") <=> ~ret.value.active

\* C14 witness: a distance of exactly 15 degrees, in the setting phase.
C14_Witness ==
    /\ Returned("check_sade_sati")
    /\ ret.value.distance = 150000
    /\ ret.value.active
    /\ ret.value.phase = "Final Phase (Setting)"

\* C15: for Moon and Saturn longitudes in [0, 360) the distance returned by
\* check_sade_sati is congruent to saturn - moon modulo 360 and lies in
\* (-180, 180].
C15_DistanceHalfOpen ==
    Returned("check_sade_sati") =>
        LET d == ret.value.distance
        IN  /\ (d - (args.current_saturn_lon - args.natal_moon_lon)) % Full = 0
            /\ 0 - 180 * Deg < d
            /\ d <= 180 * Deg

\* the number of the given bodies that the planets put in house h
BodiesIn(planets, names, h) ==
    Cardinality({k \in DOMAIN planets :
                    planets[k].planet \in names /\ planets[k].house = h})

\* C16: calculate_ashtakvarga returns a table with exactly the keys 1..12;
\* the score of house h is 4 for each of Jupiter and Venus in h plus 2 for
\* each of Saturn and Mars in h, the other five bodies adding nothing.
C16_AshtakvargaScores ==
    Returned("calculate_ashtakvarga") =>
        /\ DOMAIN ret.value = 1..12
        /\ \A h \in 1..12 :
              ret.value[h]
                = 4 * BodiesIn(args.planets, {"Jupiter", "Venus"}, h)
                  + 2 * BodiesIn(args.planets, {"Saturn", "Mars"}, h)

\* C16 witness: the four weighted bodies and the other five all in house 1,
\* which scores 12 while every other house scores 0.
C16_Witness ==
    /\ Returned("calculate_ashtakvarga")
    /\ \A k \in DOMAIN args.planets : args.planets[k].house = 1
    /\ ret.value[1] = 12
    /\ \A h \in 2..12 : ret.value[h] = 0

\* C17: calculate_sripati_houses returns 12 cusps in [0, 360), the first the
\* ascendant, and each of the cusps 7..12 opposite (+180 mod 360) the
\* corresponding cusp 1..6.
C17_SripatiMirrored ==
    Returned("calculate_sripati_houses") =>
        LET cusps == ret.value
        IN  /\ DOMAIN cusps = 1..12
            /\ \A i \in 1..12 : 0 <= cusps[i] /\ cusps[i] < Full
            /\ cusps[1] = args.asc_lon
            /\ \A i \in 1..6 : cusps[i + 6] = (cusps[i] + 180 * Deg) % Full

\* C18: _calculate_houses returns exactly the entries 1..12, entry i the sign
\* at index floor(c / 30) of the cusp c = (LST + (i - 1) * 30) mod 360; the
\* entries are the 12 signs, each once, in zodiac order from the sign of LST.
C18_HousesFromLst ==
    Returned("_calculate_houses") =>
        LET houses == ret.value
            lst    == CalculateLocalSiderealTime(args.jd, args.longitude)
            first  == lst \div 300000
        IN  /\ DOMAIN houses = 1..12
            /\ \A i \in 1..12 :
                  houses[i]
                    = ZODIAC_SIGNS[(((lst + (i - 1) * 300000) % Full)
                                      \div 300000) + 1]
            /\ \A i \in 1..12 : houses[i] = ZODIAC_SIGNS[((first + i - 1) % 12) + 1]
            /\ \A i, j \in 1..12 : houses[i] = houses[j] => i = j

\* C18 witness: a table that starts after Aries, so that the signs wrap
\* around from Pisces to Aries inside the table.
C18_Witness ==
    /\ Returned("_calculate_houses")
    /\ ret.value[1] # "Aries"
    /\ \E i \in 1..11 : ret.value[i] = "Pisces" /\ ret.value[i + 1] = "Aries"

\* invocation t has returned its chart
ChartOf(t) == inv[t].result.chart

\* C19: two invocations of calculate_birth_chart with identical birth
\* datetime, latitude, longitude and timezone offset, whenever they run and
\* whatever ran before, return charts equal in every field but calculated_at.
C19_Determinism ==
    \A t, u \in Threads :
        (inv[t].pc = "returned" /\ inv[u].pc = "returned"
            /\ inv[t].input = inv[u].input)
          => [ChartOf(t) EXCEPT !.calculated_at = 0]
               = [ChartOf(u) EXCEPT !.calculated_at = 0]

\* C19 witness: two invocations with identical arguments have returned
\* charts computed at different times.
C19_Witness ==
    /\ inv["t1"].pc = "returned"
    /\ inv["t2"].pc = "returned"
    /\ inv["t1"].input = inv["t2"].input
    /\ ChartOf("t1").calculated_at # ChartOf("t2").calculated_at
    /\ ChartOf("t1").planets = ChartOf("t2").planets

\* C20: however the invocations interleave on the one calculator, each
\* returns the chart it returns when it runs alone; the calculator's fields
\* and the tables are never written; the mutable objects of a returned chart
\* belong to its own invocation, so no two charts share one.
C20_Isolation ==
    /\ shared = InitialShared
    /\ \A t \in Threads :
          inv[t].pc = "returned" =>
              /\ ChartOf(t)
                   = CalculateBirthChart(inv[t].input.birth_datetime,
                         inv[t].input.latitude, inv[t].input.longitude,
                         inv[t].input.timezone_offset,
                         ChartOf(t).calculated_at)
              /\ \A o \in inv[t].result.objects : o[1] = t
    /\ \A t, u \in Threads :
          (t # u /\ inv[t].pc = "returned" /\ inv[u].pc = "returned")
            => inv[t].result.objects \cap inv[u].result.objects = {}

\* C20 witness: one invocation has returned the chart of its own arguments
\* while another, with other arguments, is between two of its statements.
C20_Witness ==
    /\ inv["t1"].pc = "returned"
    /\ inv["t2"].pc = "yogas"
    /\ inv["t1"].input # inv["t2"].input
    /\ ChartOf("t1").houses # locals["t2"].houses
    /\ ChartOf("t1").houses
         = CalculateHouses(GregorianToJulianDate(
                               inv["t1"].input.birth_datetime,
                               inv["t1"].input.timezone_offset),
                           inv["t1"].input.latitude, inv["t1"].input.longitude)

\* C21: every chart returned by calculate_birth_chart has exactly 9 planetary
\* positions, keyed by the 9 body names, one per body; a house table with
\* exactly the keys 1..12; an ascendant that is one of the 12 signs; and a
\* current major-period lord that is one of the 9 Dasha lords.
C21_ChartShape ==
    ChartReturned =>
        LET chart == ret.value
        IN  /\ DOMAIN chart.planets
                 = {"sun", "moon", "mercury", "venus", "mars", "jupiter",
                    "saturn", "rahu", "ketu"}
            /\ Cardinality(DOMAIN chart.planets) = 9
            /\ {chart.planets[k].planet : k \in DOMAIN chart.planets}
                 = {"Sun", "Moon", "Mercury", "Venus", "Mars", "Jupiter",
                    "Saturn", "Rahu", "Ketu"}
            /\ DOMAIN chart.houses = 1..12
            /\ \E i \in 1..12 : chart.ascendant = ZODIAC_SIGNS[i]
            /\ \E i \in 1..9 : chart.current_dasha_lord = DASHA_LORDS[i]

\* C21 witness: the chart of the birth data of test_calculate_birth_chart,
\* with its 9 positions, ascendant Pisces and a major-period lord.
C21_Witness ==
    /\ ChartReturned
    /\ args.birth_datetime = TestBirth
    /\ args.latitude = 190760
    /\ args.longitude = 728777
    /\ args.timezone_offset = DefaultTimezoneOffset
    /\ Cardinality(DOMAIN ret.value.planets) = 9
    /\ ret.value.ascendant = "Pisces"
    /\ ret.value.current_dasha_lord \in {"Ketu", "Venus", "Sun"}

\* the 12 sign names
SignNames ==
    {"Aries", "Taurus", "Gemini", "Cancer", "Leo", "Virgo", "Libra",
     "Scorpio", "Sagittarius", "Capricorn", "Aquarius", "Pisces"}

\* C22: get_daily_horoscope succeeds exactly for the 12 sign names, with a
\* record whose sign is the input; for every other string (a sign in another
\* case too) it fails with the invalid-sign error and returns no record, and
\* the route answers with an error.
C22_HoroscopeSigns ==
    /\ Returned("get_daily_horoscope") =>
          IF args.zodiac_sign \in SignNames
          THEN ret.status = "ok" /\ ret.value.sign = args.zodiac_sign
          ELSE ret.status = "error" /\ ret.error = "ValueError"
                 /\ "value" \notin DOMAIN ret
    /\ Returned("route_daily_horoscope") =>
          IF args.sign \in SignNames
          THEN ret.status = "ok" /\ ret.value.sign = args.sign
          ELSE ret.status = "error" /\ ret.status_code = 400
                 /\ "value" \notin DOMAIN ret

\* C22 witness: the route refuses a sign written in lower case.
C22_Witness ==
    /\ Returned("route_daily_horoscope")
    /\ args.sign = "aries"
    /\ ret.status = "error"
    /\ ret.status_code = 400

\* C23: for every Julian Date and each of the 9 bodies the longitude that
\* _calculate_planet_longitude returns is in [0, 360), and _calculate_planets
\* takes from it a sign index in 0..11 and a degree in the sign in [0, 30).
C23_LongitudeRanges ==
    Returned("_calculate_planet_longitude") =>
        /\ 0 <= ret.value /\ ret.value < 360 * Deg
        /\ ret.sign_idx \in 0..11
        /\ 0 <= ret.degree_in_sign /\ ret.degree_in_sign < 30 * Deg
        /\ ret.sign_idx * 30 * Deg + ret.degree_in_sign = ret.value

\* C23 witness: a node, whose longitude falls with time, in the last half
\* sign of the circle.
C23_Witness ==
    /\ Returned("_calculate_planet_longitude")
    /\ args.planet \in {"Rahu", "Ketu"}
    /\ ret.value >= 345 * Deg
    /\ ret.sign_idx = 11

\* list names only members of order, in the order of order, none of them twice
OrderedSelection(list, order) ==
    /\ \A i \in 1..Len(list) : \E p \in 1..Len(order) : order[p] = list[i]
    /\ \A i, j \in 1..Len(list) :
          i < j => IndexOf(order, list[i]) < IndexOf(order, list[j])

\* the names of a list of dosha records, in the order of the list
DoshaNameList(doshas) == [i \in 1..Len(doshas) |-> doshas[i].name]

\* C24: for every set of planetary positions the yoga list of _detect_yogas
\* is a selection without repetition, in this order, of Raj Yoga, Gaja Kesari
\* Yoga, Parivarthan Yoga, Dhana Yoga, and the dosha list of _detect_doshas
\* one of Mangal Dosha, Kaal Sarp Dosha, Pitra Dosha.
C24_RuleOutputOrdered ==
    /\ Returned("_detect_yogas") =>
          OrderedSelection(ret.value,
              <<"Raj Yoga", "Gaja Kesari Yoga", "Parivarthan Yoga",
                "Dhana Yoga">>)
    /\ Returned("_detect_doshas") =>
          OrderedSelection(DoshaNameList(ret.value),
              <<"Mangal Dosha", "Kaal Sarp Dosha", "Pitra Dosha">>)

\* the distance of two longitudes on the circle
CircularDistance(a, b) ==
    LET d == (a - b) % Full
    IN  IF d <= Full - d THEN d ELSE Full - d

\* C25: a chart of calculate_birth_chart lists Pitra Dosha exactly when the
\* ecliptic longitudes of the Sun and of Saturn are at most 10 degrees apart
\* on the circle, through 360/0 too.
C25_PitraByLongitude ==
    ChartReturned =>
        ("Pitra Dosha" \in DoshaNames(ret.value.doshas))
            <=> CircularDistance(BodyLongitude("sun"), BodyLongitude("saturn"))
                  <= 10 * Deg

\* C26: in every chart of calculate_birth_chart the degree of each body is
\* the whole degree of its longitude within its sign, 0..29; so the degrees
\* of Jupiter and the Moon differ by at most 30 and Gaja Kesari Yoga is in
\* the yoga list, whatever the birth data.
C26_GajaKesariAlways ==
    ChartReturned =>
        LET planets == ret.value.planets
        IN  /\ \A k \in DOMAIN planets :
                  /\ planets[k].degree \in {d * Deg : d \in 0..29}
                  /\ planets[k].degree
                       = ((BodyLongitude(k) % (30 * Deg)) \div Deg) * Deg
            /\ Abs(planets["jupiter"].degree - planets["moon"].degree)
                 <= 30 * Deg
            /\ "Gaja Kesari Yoga" \in YogaNames(ret.value.yogas)

\* C26 witness: a chart with Jupiter outside the angular houses, so that the
\* first Gaja Kesari test fails, and Gaja Kesari Yoga its only yoga.
C26_Witness ==
    /\ ChartReturned
    /\ ret.value.planets["jupiter"].house \notin {1, 4, 7, 10}
    /\ BodyLongitude("jupiter") >= 30 * Deg
    /\ ret.value.yogas = <<"Gaja Kesari Yoga">>

C28_MoonNakshatraAgrees ==
    ChartReturned =>
        ret.value.moon_nakshatra = ret.value.planets["moon"].nakshatra

\* C29: the latitude has no influence: the chart of calculate_birth_chart
\* is, in every field but calculated_at, the chart of the same birth
\* datetime, longitude and offset at any other latitude.
C29_LatitudeIgnored ==
    ChartReturned =>
        \A latitude \in Latitudes :
            CalculateBirthChart(args.birth_datetime, latitude, args.longitude,
                                args.timezone_offset, ret.value.calculated_at)
              = ret.value

\* C29 witness: a chart for the south pole with the houses and the house of
\* the Moon of the chart for latitude 19.0760.
C29_Witness ==
    /\ ChartReturned
    /\ args.latitude = 0 - 90 * Deg
    /\ args.birth_datetime = TestBirth
    /\ args.longitude = 728777
    /\ ret.value.ascendant = "Pisces"
    /\ ret.value.planets["moon"].house
         = GetHouse(BodyLongitude("moon"), 190760,
                    GregorianToJulianDate(args.birth_datetime,
                                          args.timezone_offset))

\* the requests that differ from request in birth_timezone and
\* birth_location_name at most
SameBirthElsewhere(request) ==
    {other \in Requests :
        /\ other.birth_date = request.birth_date
        /\ other.birth_time = request.birth_time
        /\ other.latitude = request.latitude
        /\ other.longitude = request.longitude}

====
